---- MODULE Spec2Model ----
(***************************************************************************)
(* AuraStyle (src/src/App.tsx, src/src/types.ts): the state of the App     *)
(* component, its event handlers and the two asynchronous continuations    *)
(* (the recommendation request and the chat request), as a state machine.  *)
(*                                                                         *)
(* A handler runs to completion on the single UI thread, and React flushes *)
(* the state updates of a discrete event before the next event is          *)
(* dispatched, so every handler reads the current state.  The code after   *)
(* an await is a separate step; it reads the occasion, weather and         *)
(* inputValue of the render in which the handler was started (they are     *)
(* closure constants), which the in-flight request records carry.          *)
(*                                                                         *)
(* A control can be operated when the code renders it and does not disable *)
(* it (pointer or keyboard; the drawer has no focus trap).                 *)
(***************************************************************************)
EXTENDS Naturals, Sequences, FiniteSets

VARIABLES
    occasion,        \* useState<Occasion | null>      App.tsx:52
    weather,         \* useState<Weather | null>       App.tsx:53
    recommendation,  \* useState<Recommendation|null>  App.tsx:54
    loading,         \* App.tsx:55
    chatOpen,        \* App.tsx:56
    messages,        \* useState<Message[]>            App.tsx:57
    inputValue,      \* App.tsx:58
    chatLoading,     \* App.tsx:59
    recRequests,     \* generateContent calls awaiting their response (App.tsx:74)
    chatRequests,    \* chat.sendMessage calls awaiting their response (App.tsx:123)
    recFor,          \* history: the selection named by the prompt whose response is stored
    staleReplies     \* history: indices of messages appended by a chat turn that was
                     \* started before the transcript was last reseeded

vars == <<occasion, weather, recommendation, loading, chatOpen, messages,
          inputValue, chatLoading, recRequests, chatRequests, recFor, staleReplies>>

-----------------------------------------------------------------------------
(* Bounds of the model *)

\* the user clicks among the first NumOccasionsUsed entries of the occasion catalogue
NumOccasionsUsed == 2
\* the user sends a chat message only while the transcript is shorter than this
MaxTranscript == 4
\* cap on the number of calls of one kind awaiting a response
MaxInFlight == 2

-----------------------------------------------------------------------------
(* types.ts *)

Occasion == {"Casual", "Business", "Wedding", "Date Night", "Party",
             "Formal Event", "Outdoor Adventure"}
Weather == {"Sunny", "Rainy", "Cold", "Hot", "Windy", "Snowy"}
RecommendationFields == {"outfit", "footwear", "accessories", "stylingTips"}

\* the null of `Occasion | null` and `Weather | null`
NoSelection == "null"
\* the null of `Recommendation | null`, and the value of the JSON text null
Null == [json |-> "null"]

(* App.tsx: the two catalogues the selection panel renders *)
OCCASIONS == <<"Casual", "Business", "Wedding", "Date Night", "Party",
               "Outdoor Adventure">>
WEATHERS == <<"Sunny", "Rainy", "Cold", "Hot", "Windy", "Snowy">>

Range(s) == {s[i] : i \in DOMAIN s}
RemoveAt(s, i) == [j \in 1..(Len(s) - 1) |-> IF j < i THEN s[j] ELSE s[j + 1]]

\* the catalogue entries the user clicks in this model
UsedOccasions == Range(SubSeq(OCCASIONS, 1, NumOccasionsUsed))
UsedWeathers == {WEATHERS[1]}

-----------------------------------------------------------------------------
(* Texts.  A text is a sequence of pieces: single characters for what the  *)
(* user types, whole words for the fixed templates and the labels the      *)
(* templates interpolate.                                                  *)

Whitespace == {" "}

\* what the user types into the chat input: nothing, a blank, a padded question
TypedTexts == {<<>>, <<" ">>, <<" ", "W", "h", "y", "?", " ">>}

\* String.prototype.trim
RECURSIVE TrimStart(_)
TrimStart(t) ==
    IF t # <<>> /\ Head(t) \in Whitespace THEN TrimStart(Tail(t)) ELSE t
RECURSIVE TrimEnd(_)
TrimEnd(t) ==
    IF t # <<>> /\ t[Len(t)] \in Whitespace
    THEN TrimEnd(SubSeq(t, 1, Len(t) - 1)) ELSE t
Trim(t) == TrimEnd(TrimStart(t))

Contains(text, piece) == \E i \in DOMAIN text : text[i] = piece

\* the template literal of App.tsx:97
Greeting(o, w) ==
    <<"Hello! I've generated a", o, "look for", w,
      "weather. Do you have any specific questions about this outfit or need more styling advice?">>
\* App.tsx:127 and App.tsx:130
CouldNotProcess == <<"I'm sorry, I couldn't process that.">>
Apology == <<"I'm having trouble connecting right now. Please try again.">>

\* the template literal of App.tsx:118: the values it interpolates
SystemInstruction(o, w, rec) ==
    [occasion |-> o, weather |-> w, recommendation |-> rec]

-----------------------------------------------------------------------------
(* What the external service can answer *)

R1 == [outfit |-> "Navy suit", footwear |-> "Leather oxfords",
       accessories |-> "Umbrella", stylingTips |-> "Layer for rain"]
R2 == [outfit |-> "Linen shirt", footwear |-> "Loafers",
       accessories |-> "Sunglasses", stylingTips |-> "Keep it light"]
PartialObject == [outfit |-> "Navy suit"]

\* response.text of a generateContent call that returned
RecResponseTexts == {"Sorry, I cannot help", "null", "{outfit}", "{R1}", "{R2}"}

\* JSON.parse: the value, or the SyntaxError it throws
JSONParse(text) ==
    CASE text = "{R1}" -> [ok |-> TRUE, value |-> R1]
      [] text = "{R2}" -> [ok |-> TRUE, value |-> R2]
      [] text = "{outfit}" -> [ok |-> TRUE, value |-> PartialObject]
      [] text = "null" -> [ok |-> TRUE, value |-> Null]
      [] OTHER -> [ok |-> FALSE, value |-> Null]

\* a call either rejects (transport failure, non-OK status) or returns a text
RecResponses == {[kind |-> "rejected", text |-> ""]}
                  \cup {[kind |-> "returned", text |-> t] : t \in RecResponseTexts}

\* response.text of a chat reply: absent/empty, or some text
ReplyTexts == {<<>>, <<"Try a navy tie.">>}
ChatResponses == {[kind |-> "rejected", text |-> <<>>]}
                   \cup {[kind |-> "returned", text |-> t] : t \in ReplyTexts}

\* the responseSchema of App.tsx:79-88: an object with the four required fields
MatchesSchema(v) == DOMAIN v = RecommendationFields
\* JavaScript truthiness of a parsed JSON value of this model
Truthy(v) == v # Null

-----------------------------------------------------------------------------
Init ==
    /\ occasion = NoSelection
    /\ weather = NoSelection
    /\ recommendation = Null
    /\ loading = FALSE
    /\ chatOpen = FALSE
    /\ messages = <<>>
    /\ inputValue = <<>>
    /\ chatLoading = FALSE
    /\ recRequests = <<>>
    /\ chatRequests = <<>>
    /\ recFor = [occasion |-> NoSelection, weather |-> NoSelection]
    /\ staleReplies = {}

-----------------------------------------------------------------------------
(* Selection panel, App.tsx:165-201: one button per catalogue entry *)

SetOccasion(o) ==
    /\ o \in Range(OCCASIONS)
    /\ occasion' = o
    /\ UNCHANGED <<weather, recommendation, loading, chatOpen, messages, inputValue,
                   chatLoading, recRequests, chatRequests, recFor, staleReplies>>

SetWeather(w) ==
    /\ w \in Range(WEATHERS)
    /\ weather' = w
    /\ UNCHANGED <<occasion, recommendation, loading, chatOpen, messages, inputValue,
                   chatLoading, recRequests, chatRequests, recFor, staleReplies>>

\* variant: the button stays enabled while a request is outstanding
CurateDisabled_IgnoresLoading == occasion = NoSelection \/ weather = NoSelection

(* 'Curate My Look', App.tsx:204-210 *)
CurateDisabled == occasion = NoSelection \/ weather = NoSelection \/ loading

(* generateRecommendation up to its await, App.tsx:70-90 *)
GenerateRecommendation ==
    /\ ~(occasion = NoSelection \/ weather = NoSelection)
    /\ loading' = TRUE
    /\ recRequests' = Append(recRequests, [occasion |-> occasion, weather |-> weather])
    /\ UNCHANGED <<occasion, weather, recommendation, chatOpen, messages, inputValue,
                   chatLoading, chatRequests, recFor, staleReplies>>

CurateClick ==
    /\ ~CurateDisabled
    /\ Len(recRequests) < MaxInFlight
    /\ GenerateRecommendation

\* variant: the greeting is appended to the transcript instead of replacing it
SeedTranscript_Appends(req) ==
    Append(messages, [role |-> "model", text |-> Greeting(req.occasion, req.weather)])

\* variant: the greeting names the selection at the time the response arrives
SeedTranscript_CurrentSelection(req) ==
    <<[role |-> "model", text |-> Greeting(occasion, weather)]>>

(* the transcript set at App.tsx:96-98; occasion and weather are the closure's *)
SeedTranscript(req) ==
    <<[role |-> "model", text |-> Greeting(req.occasion, req.weather)]>>

(* generateRecommendation from its await on, App.tsx:92-103 *)
RecommendationSettles(i, resp) ==
    /\ i \in DOMAIN recRequests
    /\ LET req == recRequests[i]
           parsed == JSONParse(resp.text)
       IN  IF resp.kind = "returned" /\ parsed.ok
           THEN /\ recommendation' = parsed.value
                /\ messages' = SeedTranscript(req)
                /\ recFor' = req
                /\ staleReplies' = {}
                /\ chatRequests' = [j \in DOMAIN chatRequests |->
                                      [chatRequests[j] EXCEPT !.stale = TRUE]]
           ELSE UNCHANGED <<recommendation, messages, recFor, staleReplies, chatRequests>>
    /\ loading' = FALSE
    /\ recRequests' = RemoveAt(recRequests, i)
    /\ UNCHANGED <<occasion, weather, chatOpen, inputValue, chatLoading>>

-----------------------------------------------------------------------------
(* Results panel, App.tsx:216-305: which of the three views is rendered *)
View ==
    IF ~Truthy(recommendation) /\ ~loading THEN "empty"
    ELSE IF loading THEN "loading"
    ELSE "result"

(* 'Ask Stylist for Advice', App.tsx:298-303 *)
AskStylistClick ==
    /\ View = "result"
    /\ chatOpen' = TRUE
    /\ UNCHANGED <<occasion, weather, recommendation, loading, messages, inputValue,
                   chatLoading, recRequests, chatRequests, recFor, staleReplies>>

(* the drawer's backdrop, App.tsx:314-320 *)
BackdropClick ==
    /\ chatOpen
    /\ chatOpen' = FALSE
    /\ UNCHANGED <<occasion, weather, recommendation, loading, messages, inputValue,
                   chatLoading, recRequests, chatRequests, recFor, staleReplies>>

(* the drawer's close control, App.tsx:338-343 *)
CloseControlClick ==
    /\ chatOpen
    /\ chatOpen' = FALSE
    /\ UNCHANGED <<occasion, weather, recommendation, loading, messages, inputValue,
                   chatLoading, recRequests, chatRequests, recFor, staleReplies>>

(* the chat input's onChange, App.tsx:377-380 *)
SetInputValue(t) ==
    /\ chatOpen
    /\ inputValue' = t
    /\ UNCHANGED <<occasion, weather, recommendation, loading, chatOpen, messages,
                   chatLoading, recRequests, chatRequests, recFor, staleReplies>>

-----------------------------------------------------------------------------
\* variant: the early return does not look at chatLoading
SendRejected_IgnoresChatLoading == Trim(inputValue) = <<>>

(* handleSendMessage up to its await, App.tsx:106-125 *)
SendRejected == Trim(inputValue) = <<>> \/ chatLoading

HandleSendMessage ==
    IF SendRejected
    THEN UNCHANGED vars
    ELSE /\ messages' = Append(messages, [role |-> "user", text |-> inputValue])
         /\ inputValue' = <<>>
         /\ chatLoading' = TRUE
         /\ chatRequests' = Append(chatRequests,
                [message |-> inputValue,
                 systemInstruction |-> SystemInstruction(occasion, weather, recommendation),
                 stale |-> FALSE])
         /\ UNCHANGED <<occasion, weather, recommendation, loading, chatOpen,
                        recRequests, recFor, staleReplies>>

\* the user attempts a send that would be accepted only within the bounds
RoomForTurn ==
    SendRejected \/ (Len(messages) < MaxTranscript /\ Len(chatRequests) < MaxInFlight)

(* Enter in the chat input, App.tsx:381 *)
EnterKey ==
    /\ chatOpen
    /\ RoomForTurn
    /\ HandleSendMessage

(* the send button, App.tsx:385-391 *)
SendDisabled == Trim(inputValue) = <<>> \/ chatLoading

SendClick ==
    /\ chatOpen
    /\ ~SendDisabled
    /\ RoomForTurn
    /\ HandleSendMessage

\* variant: an empty reply text is appended as it is
ReplyText_NoFallback(resp) ==
    IF resp.kind = "returned" THEN resp.text ELSE Apology

(* handleSendMessage from its await on, App.tsx:127-133 *)
ReplyText(resp) ==
    IF resp.kind = "returned"
    THEN (IF resp.text # <<>> THEN resp.text ELSE CouldNotProcess)
    ELSE Apology

ChatSettles(i, resp) ==
    /\ i \in DOMAIN chatRequests
    /\ messages' = Append(messages, [role |-> "model", text |-> ReplyText(resp)])
    /\ chatLoading' = FALSE
    /\ chatRequests' = RemoveAt(chatRequests, i)
    /\ staleReplies' = IF chatRequests[i].stale
                       THEN staleReplies \cup {Len(messages) + 1}
                       ELSE staleReplies
    /\ UNCHANGED <<occasion, weather, recommendation, loading, chatOpen, inputValue,
                   recRequests, recFor>>

-----------------------------------------------------------------------------
Next ==
    \/ \E o \in UsedOccasions : SetOccasion(o)
    \/ \E w \in UsedWeathers : SetWeather(w)
    \/ CurateClick
    \/ \E i \in 1..MaxInFlight, resp \in RecResponses : RecommendationSettles(i, resp)
    \/ AskStylistClick
    \/ BackdropClick
    \/ CloseControlClick
    \/ \E t \in TypedTexts : SetInputValue(t)
    \/ EnterKey
    \/ SendClick
    \/ \E i \in 1..MaxInFlight, resp \in ChatResponses : ChatSettles(i, resp)

Spec == Init /\ [][Next]_vars

\* A pending promise settles (the service answers or the call fails), and the
\* event loop then runs the continuation of the await.
FairSpec ==
    /\ Spec
    /\ WF_vars(\E i \in 1..MaxInFlight, resp \in ChatResponses : ChatSettles(i, resp))
    /\ WF_vars(\E i \in 1..MaxInFlight, resp \in RecResponses : RecommendationSettles(i, resp))

-----------------------------------------------------------------------------
(* Properties *)

\* the response of a recommendation request that returned valid JSON matching the schema
SchemaResponse(resp) ==
    /\ resp.kind = "returned"
    /\ JSONParse(resp.text).ok
    /\ MatchesSchema(JSONParse(resp.text).value)

OneGreeting(transcript, o, w) ==
    /\ Len(transcript) = 1
    /\ transcript[1].role = "model"
    /\ Contains(transcript[1].text, o)
    /\ Contains(transcript[1].text, w)

\* C1 as stated: when a recommendation request resolves with a response matching
\* the schema, the stored Recommendation becomes the parsed response and the
\* transcript becomes one 'model' message whose text contains the occasion and
\* weather labels selected at the moment of resolution.
C1_GreetingNamesSelectionAtResolution ==
    [][\A i \in 1..MaxInFlight, resp \in RecResponses :
         (RecommendationSettles(i, resp) /\ SchemaResponse(resp))
           => /\ recommendation' = JSONParse(resp.text).value
              /\ OneGreeting(messages', occasion, weather)]_vars

\* C1 amended: when a recommendation request resolves with a response matching
\* the schema, the stored Recommendation becomes exactly the parsed response and
\* the transcript becomes exactly one 'model' message whose text contains the
\* occasion and weather labels that were selected when the request was issued.
C1_GreetingNamesSelectionAtRequest ==
    [][\A i \in 1..MaxInFlight, resp \in RecResponses :
         (RecommendationSettles(i, resp) /\ SchemaResponse(resp))
           => /\ recommendation' = JSONParse(resp.text).value
              /\ OneGreeting(messages', recRequests[i].occasion, recRequests[i].weather)]_vars

\* a schema-matching response has been stored and the transcript reseeded, and
\* the selection differs from the one the request was issued with
C1_Witness ==
    /\ MatchesSchema(recommendation)
    /\ ~loading
    /\ Len(messages) = 1
    /\ recFor.occasion # occasion

\* C2: when a recommendation request ends in a transport failure, a non-JSON
\* text or a JSON text that violates the schema, the Recommendation and the
\* transcript are left as they were and loading is false again.
C2_FailedRequestChangesNothing ==
    [][\A i \in 1..MaxInFlight, resp \in RecResponses :
         (RecommendationSettles(i, resp) /\ ~SchemaResponse(resp))
           => /\ recommendation' = recommendation
              /\ messages' = messages
              /\ loading' = FALSE]_vars

\* C3: at most one recommendation request is outstanding, and loading is true
\* exactly while one is.
C3_OneRecommendationRequest ==
    /\ Len(recRequests) <= 1
    /\ loading <=> (recRequests # <<>>)

\* a second request is outstanding (a previous result is stored) while a chat
\* call is pending too
C3_Witness ==
    /\ Len(recRequests) = 1
    /\ loading
    /\ Truthy(recommendation)
    /\ chatLoading

\* C4: a send with blank input or with a chat call outstanding, by Enter or by
\* the button, issues no call, appends no message and leaves inputValue and
\* chatLoading as they were; at most one chat call is outstanding, and
\* chatLoading is true exactly while one is.
C4_RejectedSendChangesNothing ==
    /\ [](Len(chatRequests) <= 1 /\ (chatLoading <=> (chatRequests # <<>>)))
    /\ [][((EnterKey \/ SendClick) /\ (Trim(inputValue) = <<>> \/ chatLoading))
             => UNCHANGED <<messages, inputValue, chatLoading, chatRequests>>]_vars

\* Enter can be pressed on a non-blank input while a chat call is outstanding
C4_Witness ==
    /\ chatOpen
    /\ chatLoading
    /\ Trim(inputValue) # <<>>

\* the text the transcript gains for each outcome of a chat call
C5_Expected(resp) ==
    CASE resp.kind = "rejected" -> Apology
      [] resp.kind = "returned" /\ resp.text = <<>> -> CouldNotProcess
      [] OTHER -> resp.text

C6_TranscriptScopedToRecommendation == staleReplies = {}

\* C7 as stated: while a Recommendation exists, the first transcript entry is
\* the 'model' greeting naming the currently selected occasion and weather.
C7_GreetingNamesCurrentSelection ==
    Truthy(recommendation)
      => /\ messages # <<>>
         /\ messages[1] = [role |-> "model", text |-> Greeting(occasion, weather)]

\* C7 amended: while a Recommendation exists, the first transcript entry is the
\* 'model' greeting naming the occasion and weather that were selected when the
\* request that produced the Recommendation was issued.
C7_GreetingNamesRequestedSelection ==
    Truthy(recommendation)
      => /\ messages # <<>>
         /\ messages[1] = [role |-> "model",
                            text |-> Greeting(recFor.occasion, recFor.weather)]

\* a Recommendation with chat turns after it, and the selection changed since
C7_Witness ==
    /\ Truthy(recommendation)
    /\ Len(messages) > 2
    /\ recFor.occasion # occasion

\* C8: every member of the Occasion and of the Weather enumeration can be
\* selected in the panel, and the selection is never outside the enumeration.
C8_EveryMemberSelectable ==
    /\ \A o \in Occasion : ENABLED SetOccasion(o)
    /\ \A w \in Weather : ENABLED SetWeather(w)
    /\ occasion \in Occasion \cup {NoSelection}
    /\ weather \in Weather \cup {NoSelection}

\* C9: the drawer is open only while a Recommendation exists; it opens only by
\* 'Ask Stylist for Advice', offered only when a Recommendation is present and
\* no request is loading; it closes only by the backdrop or the close control,
\* which leave the transcript unchanged.
C9_ChatVisibility ==
    /\ [](chatOpen => Truthy(recommendation))
    /\ [][((~chatOpen /\ chatOpen')
              => (AskStylistClick /\ Truthy(recommendation) /\ ~loading))
          /\ ((chatOpen /\ ~chatOpen')
              => ((BackdropClick \/ CloseControlClick) /\ messages' = messages))]_vars

\* C10: the occasion and weather named in the system instruction of a chat
\* call are the pair the Recommendation embedded in it was generated for.
C10_InstructionPairsRecommendationWithItsSelection ==
    [][Len(chatRequests') > Len(chatRequests)
         => LET call == chatRequests'[Len(chatRequests')]
            IN  /\ call.systemInstruction.occasion = recFor.occasion
                /\ call.systemInstruction.weather = recFor.weather]_vars

====
